---- MODULE Spec2Model ----
(***************************************************************************)
(* A model of the PTT board crawler (src/ptt_crawler.py).                  *)
(*                                                                         *)
(* Text is modelled as a sequence of one-character strings, so that        *)
(* str.partition, str.rpartition, str.strip and the "in" substring test    *)
(* are computed the way Python computes them.  A value that may be None is *)
(* a record [present, text].  The Chinese literals of the source are       *)
(* written with ASCII stand-ins, named after the literal they stand for.   *)
(***************************************************************************)
EXTENDS Integers, Sequences, FiniteSets, TLC

VARIABLES
    \* ---- Pushes (one article's comment set) ----
    msgs,           \* Pushes.msgs
    count,          \* Pushes.count
    \* ---- parse_title ----
    title,          \* the raw title handed to parse_title
    parsed,         \* what parse_title returned, once it was called
    \* ---- ArticleSummary ----
    tag,            \* the listing entry (div.r-ent) handed to from_bs_tag
    summary,        \* what from_bs_tag gave: a Summary or InValidBeautifulSoupTag
    read_result,    \* what summary.read() gave, once it was called
    fetches,        \* number of HTTP GETs issued by Page.__init__
    \* ---- ArticlePage ----
    main_tag,       \* div#main-content of the fetched article, as parsed
    article,        \* the ArticlePage under construction: where __init__ is,
                    \* the nodes left in the container, dic, ip, content, signature
    \* ---- crawl_ptt_page and the ptt_crawl call it is in ----
    pc,             \* where crawl_ptt_page is
    arg_start,      \* the start argument: a digit string or not
    crawl_all,      \* the crawl_all argument
    page_num,       \* the page_num argument
    start,          \* the resolved start index
    max_pages,
    pages_crawled,
    page_index,
    page_errors,
    total_success,
    result_list,    \* the non-empty page result sets, in crawl order
    todo,           \* ptt_crawl: summaries of latest_page not yet iterated
    rows,           \* ptt_crawl: the ptt_* column lists, one record per row
    success_count,  \* ptt_crawl
    error_count,    \* ptt_crawl
    page_errors_log,   \* errors/<board>/page_errors.log: page index of each line
    page_error_files,  \* errors/<board>/page_error_<index>_<time>.html snapshots
    ret,            \* what crawl_ptt_page returned or raised
    exit,           \* how the crawl loop was left
    \* ---- history of the run, for stating the properties ----
    requested,      \* page index of every ptt_crawl call
    attempts,       \* per finished page attempt: how the listing went, its data
    hist,           \* the page ptt_crawl is in or has just returned:
                    \* entries, entries visited, rows read, failed reads
    in_hand         \* the rows ptt_crawl held when it was interrupted

pushVars    == <<msgs, count>>
titleVars   == <<title, parsed>>
summaryVars == <<tag, summary, read_result, fetches>>
articleVars == <<main_tag, article>>
argVars     == <<arg_start, crawl_all, page_num>>
loopVars    == <<start, max_pages, pages_crawled, page_index, page_errors,
                 total_success, result_list>>
pageVars    == <<todo, rows, success_count, error_count>>
fileVars    == <<page_errors_log, page_error_files>>
histVars    == <<requested, attempts, hist, in_hand>>
crawlVars   == <<pc, argVars, loopVars, pageVars, fileVars, ret, exit, histVars>>
vars        == <<pushVars, titleVars, summaryVars, articleVars, crawlVars>>

(***************************************************************************)
(* Bounds of the model.                                                    *)
(***************************************************************************)
MaxMsgs     == 4
MaxTitleLen == 4
MaxStart    == 2      \* largest start index
MaxPageNum  == 2      \* largest page_num argument
MaxEntries  == 2      \* most entries on one listing page
MaxRows     == 3      \* most rows in the page result sets handed to the merge
MaxTextLen  == 7      \* longest article text
MaxNodes    == 3      \* most text nodes and span.f2 in an article
MaxPushes   == 2      \* most div.push blocks in an article

(***************************************************************************)
(* Python values and string operations.                                    *)
(***************************************************************************)
None    == [present |-> FALSE, text |-> <<>>]
Some(t) == [present |-> TRUE, text |-> t]

\* truthiness of an optional string: None and '' are both false
Truthy(o) == o.present /\ o.text # <<>>

IndexOf(s, c) ==
    IF \E i \in 1..Len(s) : s[i] = c
    THEN CHOOSE i \in 1..Len(s) : s[i] = c /\ \A j \in 1..(i-1) : s[j] # c
    ELSE 0

LastIndexOf(s, c) ==
    IF \E i \in 1..Len(s) : s[i] = c
    THEN CHOOSE i \in 1..Len(s) : s[i] = c /\ \A j \in (i+1)..Len(s) : s[j] # c
    ELSE 0

\* str.partition(c): split at the first c; (s, '', '') when c does not occur
partition(s, c) ==
    LET i == IndexOf(s, c) IN
    IF i = 0 THEN <<s, <<>>, <<>>>>
    ELSE <<SubSeq(s, 1, i-1), <<c>>, SubSeq(s, i+1, Len(s))>>

\* str.rpartition(c): split at the last c; ('', '', s) when c does not occur
rpartition(s, c) ==
    LET i == LastIndexOf(s, c) IN
    IF i = 0 THEN <<<<>>, <<>>, s>>
    ELSE <<SubSeq(s, 1, i-1), <<c>>, SubSeq(s, i+1, Len(s))>>

\* sub in s
Contains(s, sub) ==
    \E i \in 0..(Len(s) - Len(sub)) : SubSeq(s, i+1, i+Len(sub)) = sub

IsSpace(c) == c \in {" ", "\t", "\n", "\r"}

RECURSIVE LStrip(_)
LStrip(s) == IF s # <<>> /\ IsSpace(Head(s)) THEN LStrip(Tail(s)) ELSE s

RECURSIVE RStrip(_)
RStrip(s) ==
    IF s # <<>> /\ IsSpace(s[Len(s)]) THEN RStrip(SubSeq(s, 1, Len(s)-1)) ELSE s

\* str.strip()
Strip(s) == RStrip(LStrip(s))

\* all sequences over alphabet A of length at most n
SeqsUpTo(A, n) == UNION {[1..k -> A] : k \in 0..n}

(***************************************************************************)
(* parse_std_url, parse_title                                              *)
(***************************************************************************)
parse_std_url(url) ==
    LET p1       == rpartition(url, "/")
        prefix   == p1[1]
        basename == rpartition(p1[3], ".")[1]
        p2       == rpartition(prefix, "/")
        bbs      == IF p2[1] = <<>> THEN <<>> ELSE Tail(p2[1])
    IN  [bbs |-> bbs, board |-> p2[3], aid |-> basename]

ReplyMarker   == <<"R", "e", ":">>
ForwardMarker == <<"F", "w", ":">>

parse_title(t) ==
    LET remain   == partition(t, "[")[3]
        category == rpartition(remain, "]")[1]
    IN  [category  |-> IF category # <<>> THEN Some(category) ELSE None,
         isreply   |-> Contains(t, ReplyMarker),
         isforward |-> Contains(t, ForwardMarker)]

TitleChars == {"[", "]", "a", "R", "e", ":", "F", "w"}
Titles     == SeqsUpTo(TitleChars, MaxTitleLen)

NotParsed == [done |-> FALSE, category |-> None, isreply |-> FALSE, isforward |-> FALSE]

TitleInit ==
    /\ title \in Titles
    /\ parsed = NotParsed

TitleIdle ==
    /\ title = <<>>
    /\ parsed = NotParsed

ParseTitle ==
    /\ ~parsed.done
    /\ parsed' = [done      |-> TRUE,
                  category  |-> parse_title(title).category,
                  isreply   |-> parse_title(title).isreply,
                  isforward |-> parse_title(title).isforward]
    /\ UNCHANGED <<title, pushVars, summaryVars, articleVars, crawlVars>>

(***************************************************************************)
(* Msg and Pushes                                                          *)
(***************************************************************************)
\* push-tag texts: U+63A8 (affirmative), U+5653 (negative), the arrow (neutral)
TypeLike    == "tui"
TypeBoo     == "xu"
TypeNeutral == "->"
MsgTypes    == {TypeLike, TypeBoo, TypeNeutral}

Msg(type, user, content, ipdatetime) ==
    [type |-> type, user |-> user, content |-> content, ipdatetime |-> ipdatetime]

Msgs == {Msg(t, "user", "content", "ipdatetime") : t \in MsgTypes}

\* Pushes.__init__ sets count to the int 0, not to a dict of counts
IntZero == [isdict |-> FALSE, all |-> 0, abs |-> 0, like |-> 0, boo |-> 0,
            neutral |-> 0, score |-> 0]

RECURSIVE Tally(_, _)
Tally(ms, c) ==
    IF ms = <<>> THEN c
    ELSE Tally(Tail(ms),
               IF Head(ms).type = TypeLike THEN [c EXCEPT !.like = @ + 1]
               ELSE IF Head(ms).type = TypeBoo THEN [c EXCEPT !.boo = @ + 1]
               ELSE [c EXCEPT !.neutral = @ + 1])

\* a plausible slip: the total leaves the neutral comments out
CountItNoNeutral(ms) ==
    LET c == Tally(ms, [IntZero EXCEPT !.isdict = TRUE]) IN
    [c EXCEPT !.all = c.like + c.boo, !.score = c.like - c.boo]

\* a plausible slip: the counters are not reset, so a second pass adds to the first
CountItAccumulating(ms) ==
    LET c == Tally(ms, [count EXCEPT !.isdict = TRUE]) IN
    [c EXCEPT !.all = c.like + c.boo + c.neutral, !.score = c.like - c.boo]

CountIt(ms) ==
    LET c == Tally(ms, [IntZero EXCEPT !.isdict = TRUE]) IN
    [c EXCEPT !.all = c.like + c.boo + c.neutral, !.score = c.like - c.boo]

PushesInit ==
    /\ msgs = <<>>
    /\ count = IntZero

addmsg ==
    /\ Len(msgs) < MaxMsgs
    /\ \E msg \in Msgs : msgs' = Append(msgs, msg)
    /\ UNCHANGED <<count, titleVars, summaryVars, articleVars, crawlVars>>

countit ==
    /\ count' = CountIt(msgs)
    /\ UNCHANGED <<msgs, titleVars, summaryVars, articleVars, crawlVars>>

(***************************************************************************)
(* ArticleSummary                                                          *)
(***************************************************************************)
\* the title given to a removed entry (the source's seven-character literal)
RemovedTitle == <<"r", "e", "m", "o", "v", "e", "d">>

\* ArticleSummary.__init__
ArticleSummary(t, url, score, date, author, mark, removeinfo) ==
    [title      |-> t,
     category   |-> parse_title(t).category,
     isreply    |-> parse_title(t).isreply,
     isforward  |-> parse_title(t).isforward,
     url        |-> url,
     board      |-> parse_std_url(url).board,
     aid        |-> parse_std_url(url).aid,
     score      |-> score,
     date       |-> date,
     author     |-> author,
     mark       |-> mark,
     isremoved  |-> Truthy(removeinfo),
     removeinfo |-> removeinfo]

NoSummary == ArticleSummary(<<>>, <<>>, <<>>, <<>>, <<>>, <<>>, None)

\* the outcome of from_bs_tag: a Summary, or InValidBeautifulSoupTag raised
Built(s)   == [built |-> TRUE, ok |-> TRUE, s |-> s]
InValidBeautifulSoupTag == [built |-> TRUE, ok |-> FALSE, s |-> NoSummary]
NotBuilt   == [built |-> FALSE, ok |-> FALSE, s |-> NoSummary]

\* A listing entry: which sub-tags it has, the text of its title (of the link
\* when there is one, of the title div otherwise) and the link's href.
DateText   == <<"1", "/", "2">>
AuthorText == <<"u">>
MarkText   == <<>>
ScoreText  == <<"5">>

from_bs_tag(tg) ==
    LET a_tag      == tg.a_tag
        removeinfo == IF ~a_tag THEN Some(Strip(tg.text)) ELSE None
        removed    == Truthy(removeinfo)
    IN
    IF ~tg.title_div THEN InValidBeautifulSoupTag      \* title_tag.find on None
    ELSE IF ~removed /\ ~a_tag THEN InValidBeautifulSoupTag   \* a_tag.get_text on None
    ELSE IF ~removed /\ ~tg.href.present THEN InValidBeautifulSoupTag  \* None.strip
    ELSE IF ~removed /\ ~tg.nrec THEN InValidBeautifulSoupTag
    ELSE IF ~tg.date \/ ~tg.author \/ ~tg.mark THEN InValidBeautifulSoupTag
    ELSE Built(ArticleSummary(
            IF removed THEN RemovedTitle ELSE Strip(tg.text),
            IF removed THEN <<>> ELSE Strip(tg.href.text),
            IF removed THEN <<>> ELSE ScoreText,
            DateText, AuthorText, MarkText, removeinfo))

\* Page.__init__: no request for an empty url; otherwise one GET, which gives the
\* page or fails; the page's own constructor may still fail on the markup
PageOutcomes(url) ==
    IF url = <<>> THEN {[kind |-> "NoGivenURLForPage", fetched |-> 0]}
    ELSE {[kind |-> k, fetched |-> 1] : k \in {"Page", "PageNotFound", "AttributeError"}}

\* ArticleSummary.read
ReadOutcomes(s) ==
    IF s.isremoved THEN {[kind |-> "ArtitcleIsRemoved", fetched |-> 0]}
    ELSE PageOutcomes(s.url)

ArticleUrl == <<"/", "b", "/", "D", "/", "M", ".", "1", ".", "h">>
TagTexts   == {<<>>, <<" ">>, <<"(", "x", ")">>, <<" ", "[", "a", "]", "t", " ">>}
Hrefs      == {None, Some(<<>>), Some(<<" ">>), Some(ArticleUrl)}

Tags ==
    {tg \in [title_div : BOOLEAN, a_tag : BOOLEAN, text : TagTexts, href : Hrefs,
             nrec : BOOLEAN, date : BOOLEAN, author : BOOLEAN, mark : BOOLEAN] :
        /\ tg.a_tag => tg.title_div
        /\ ~tg.a_tag => tg.href = None}

NoTag == [title_div |-> FALSE, a_tag |-> FALSE, text |-> <<>>, href |-> None,
          nrec |-> FALSE, date |-> FALSE, author |-> FALSE, mark |-> FALSE]

NotRead == [done |-> FALSE, kind |-> "none"]

SummaryInit ==
    /\ tag \in Tags
    /\ summary = NotBuilt
    /\ read_result = NotRead
    /\ fetches = 0

SummaryIdle ==
    /\ tag = NoTag
    /\ summary = NotBuilt
    /\ read_result = NotRead
    /\ fetches = 0

FromBsTag ==
    /\ ~summary.built
    /\ summary' = from_bs_tag(tag)
    /\ UNCHANGED <<tag, read_result, fetches, pushVars, titleVars, articleVars, crawlVars>>

read ==
    /\ summary.built /\ summary.ok
    /\ ~read_result.done
    /\ \E o \in ReadOutcomes(summary.s) :
          /\ read_result' = [done |-> TRUE, kind |-> o.kind]
          /\ fetches' = fetches + o.fetched
    /\ UNCHANGED <<tag, summary, pushVars, titleVars, articleVars, crawlVars>>

(***************************************************************************)
(* ArticlePage.__init__ on the fetched markup.  A text is a sequence of    *)
(* pieces: single characters, and words standing for a run of characters   *)
(* that holds none of the characters the code looks for.                   *)
(***************************************************************************)
\* index of the first occurrence of sub in s, 0 when there is none
FindSub(s, sub) ==
    IF Contains(s, sub)
    THEN CHOOSE i \in 1..(Len(s) - Len(sub) + 1) :
            /\ SubSeq(s, i, i + Len(sub) - 1) = sub
            /\ \A j \in 1..(i-1) : SubSeq(s, j, j + Len(sub) - 1) # sub
    ELSE 0

\* str.split(sep): the parts between the occurrences of sep, left to right
RECURSIVE split(_, _)
split(s, sep) ==
    LET i == FindSub(s, sep) IN
    IF i = 0 THEN <<s>>
    ELSE <<SubSeq(s, 1, i-1)>> \o split(SubSeq(s, i + Len(sep), Len(s)), sep)

\* sep.join(parts)
RECURSIVE join(_, _)
join(parts, sep) ==
    IF parts = <<>> THEN <<>>
    ELSE IF Len(parts) = 1 THEN parts[1]
    ELSE parts[1] \o sep \o join(Tail(parts), sep)

\* str.strip(c) for one character c
RECURSIVE StripChar(_, _)
StripChar(s, c) ==
    IF s # <<>> /\ Head(s) = c THEN StripChar(Tail(s), c)
    ELSE IF s # <<>> /\ s[Len(s)] = c THEN StripChar(SubSeq(s, 1, Len(s)-1), c)
    ELSE s

\* the markup of the container and of a span.f2, as str(main_tag) renders it
OpenDiv   == "<div class=bbs-content id=main-content>"
CloseDiv  == "</div>"
OpenSpan  == "<span class=f2>"
CloseSpan == "</span>"

\* the two-character signature delimiter
Delimiter == <<"-", "-">>
NewLine   == <<"\n">>

Node(f2, text) == [f2 |-> f2, text |-> text]

RECURSIVE get_text(_)
get_text(nodes) ==
    IF nodes = <<>> THEN <<>> ELSE Head(nodes).text \o get_text(Tail(nodes))

RECURSIVE Inner(_)
Inner(nodes) ==
    IF nodes = <<>> THEN <<>>
    ELSE (IF Head(nodes).f2 THEN <<OpenSpan>> \o Head(nodes).text \o <<CloseSpan>>
          ELSE Head(nodes).text) \o Inner(Tail(nodes))

\* str(main_tag)
Render(nodes) == <<OpenDiv>> \o Inner(nodes) \o <<CloseDiv>>

\* lines 386-395: content and signature as split at '--'
SplitContent(main_content_str) ==
    IF Contains(main_content_str, Delimiter)
    THEN LET parts == split(main_content_str, Delimiter) IN
         [content   |-> Strip(parts[1]),
          signature |-> IF Len(parts) > 1 THEN parts[2] ELSE <<>>]
    ELSE [content |-> Strip(main_content_str), signature |-> <<>>]

IsOpeningLine(line) == Contains(line, <<OpenDiv>>)
IsClosingLine(line) == Contains(line, <<CloseDiv>>)

\* lines 402-410: the wrapper lines taken out of content and signature
CleanContent(content) ==
    join(SelectSeq(split(content, NewLine), LAMBDA l : ~IsOpeningLine(l)), NewLine)

CleanSignature(signature) ==
    IF signature # <<>>
    THEN join(SelectSeq(split(signature, NewLine), LAMBDA l : ~IsClosingLine(l)), NewLine)
    ELSE signature

\* the literals the code looks for in the small-print lines: U+203B, and the
\* labels of the origin line, of a quoted reference and of the "from" line
Marker      == "*"
OriginLabel == "origin"
QuoteLabel  == "quote"
FromLabels  == {<<"laizi", ":">>, <<"From", ":">>}
Unknown     == <<"Unknown">>

\* lines 350-352: key and value of a marked line
KeyOf(text)   == Strip(StripChar(partition(text, ":")[1], Marker))
ValueOf(text) == Strip(partition(text, ":")[3])

IsMarked(node) == node.f2 /\ Contains(node.text, <<Marker>>)
IsQuote(node)  == Contains(KeyOf(node.text), <<QuoteLabel>>)

\* lines 346-357: dic, as the list of its (key, value) entries in document
\* order, and the nodes left in the container
RECURSIVE SpecialItems(_)
SpecialItems(nodes) ==
    IF nodes = <<>> THEN [dic |-> <<>>, nodes |-> <<>>]
    ELSE LET n    == Head(nodes)
             rest == SpecialItems(Tail(nodes))
         IN  IF IsMarked(n) /\ ~IsQuote(n)
             THEN [dic   |-> <<[key |-> KeyOf(n.text), value |-> ValueOf(n.text)]>> \o rest.dic,
                   nodes |-> rest.nodes]
             ELSE [dic |-> rest.dic, nodes |-> <<n>> \o rest.nodes]

\* dic[key], the list of the values recorded under key
Lookup(dic, key) ==
    LET hits == SelectSeq(dic, LAMBDA e : e.key = key) IN
    [i \in DOMAIN hits |-> hits[i].value]

\* value.split(): the words of value
Words(value) == SelectSeq(split(value, <<" ">>), LAMBDA w : w # <<>>)

\* the pieces matched by \((\d{1,3}\.\d{1,3}\.\d{1,3}\.\d{1,3})\) and their group 1
Parenthesised == [a \in {"(1)", "(2)"} |-> IF a = "(1)" THEN "1" ELSE "2"]

\* re.search(ip_pattern, text): group 1 of the first match, or None
Search(text) ==
    IF \E i \in DOMAIN text : text[i] \in DOMAIN Parenthesised
    THEN LET i == CHOOSE i \in DOMAIN text :
                     /\ text[i] \in DOMAIN Parenthesised
                     /\ \A j \in 1..(i-1) : text[j] \notin DOMAIN Parenthesised
         IN  Some(<<Parenthesised[text[i]]>>)
    ELSE None

HasFromLabel(node) == node.f2 /\ \E l \in FromLabels : Contains(node.text, l)

\* lines 471-476: the first labelled span.f2 the pattern matches in
RECURSIVE SearchLabelled(_)
SearchLabelled(nodes) ==
    IF nodes = <<>> THEN None
    ELSE IF HasFromLabel(Head(nodes)) /\ Search(Head(nodes).text).present
         THEN Search(Head(nodes).text)
         ELSE SearchLabelled(Tail(nodes))

_extract_ip_fallback(nodes) ==
    IF Search(get_text(nodes)).present THEN Search(get_text(nodes)).text
    ELSE IF SearchLabelled(nodes).present THEN SearchLabelled(nodes).text
    ELSE Unknown

\* lines 360-368: an origin entry whose value has no word raises IndexError,
\* which the handler turns into 'Unknown'
ExtractIp(dic, nodes) ==
    LET origin == Lookup(dic, <<OriginLabel>>) IN
    IF origin # <<>>
    THEN LET words == Words(origin[1]) IN
         IF words = <<>> THEN Unknown ELSE words[Len(words)]
    ELSE _extract_ip_fallback(nodes)

\* a div.push: span.push-tag, span.push-userid, span.push-content and
\* span.push-ipdatetime, each absent (None) or with its text
PushBlock(type, user, content, ipdatetime) ==
    [type |-> type, user |-> user, content |-> content, ipdatetime |-> ipdatetime]

HasPushTag(block) == block.type.present

\* lines 332-339 dereference every span of a block that has its push-tag
WellFormed(block) ==
    block.user.present /\ block.content.present /\ block.ipdatetime.present

\* str.strip(' \t\n\r') of a push-tag text of one character
PushType(text) == IF Strip(text) = <<>> THEN "" ELSE Strip(text)[1]

\* lines 332-341
MsgOf(block) ==
    Msg(PushType(block.type.text),
        Strip(block.user.text),
        Strip(SubSeq(block.content.text, 2, Len(block.content.text))),
        Strip(block.ipdatetime.text))

\* lines 329-342: the messages added, and whether the loop ran to its end
RECURSIVE AddPushes(_, _)
AddPushes(blocks, added) ==
    IF blocks = <<>> THEN [msgs |-> added, ok |-> TRUE]
    ELSE IF ~HasPushTag(Head(blocks)) THEN AddPushes(Tail(blocks), added)
    ELSE IF ~WellFormed(Head(blocks)) THEN [msgs |-> added, ok |-> FALSE]
    ELSE AddPushes(Tail(blocks), Append(added, MsgOf(Head(blocks))))

\* ---- the markup the model parses ----
TextPieces == {"a", "-", "\n"}
Texts      == SeqsUpTo(TextPieces, MaxTextLen)

IpNodes ==
    { Node(FALSE, <<"x">>),
      Node(FALSE, <<"(1)">>),
      Node(TRUE,  <<Marker, " ", OriginLabel, ":", " ", "x", " ", "3">>),
      Node(TRUE,  <<Marker, " ", OriginLabel, ":">>),
      Node(TRUE,  <<Marker, " ", QuoteLabel, ":", " ", "(1)">>),
      Node(TRUE,  <<"From", ":", " ", "(2)">>) }

PushTypeTexts == {<<TypeLike, " ">>, <<TypeBoo, " ">>, <<TypeNeutral, " ">>}
UserText      == <<"u", " ">>
ContentText   == <<":", " ", "c">>
IpDateText    == <<" ", "1", "/", "2", "\n">>

PushBlocks ==
    {PushBlock(None, Some(UserText), Some(ContentText), Some(IpDateText))} \cup
    {PushBlock(Some(t), Some(UserText), Some(ContentText), Some(IpDateText)) :
        t \in PushTypeTexts} \cup
    {PushBlock(Some(<<TypeLike, " ">>), None, Some(ContentText), Some(IpDateText)),
     PushBlock(Some(<<TypeLike, " ">>), Some(UserText), None, Some(IpDateText)),
     PushBlock(Some(<<TypeLike, " ">>), Some(UserText), Some(ContentText), None)}

MainTag(pushes, nodes) == [pushes |-> pushes, nodes |-> nodes]

MainTags ==
    {MainTag(p, <<>>) : p \in SeqsUpTo(PushBlocks, MaxPushes)} \cup
    {MainTag(<<>>, n) : n \in SeqsUpTo(IpNodes, MaxNodes)} \cup
    {MainTag(<<>>, <<Node(FALSE, t)>>) : t \in Texts}

NoArticle ==
    [step |-> "idle", nodes |-> <<>>, dic |-> <<>>, ip |-> None,
     content |-> <<>>, signature |-> <<>>]

\* the page is fetched and its markup parsed (lines 292-300); the metadata
\* lines are taken out of the container (lines 319-322)
ArticleInit ==
    /\ main_tag \in MainTags
    /\ article = [NoArticle EXCEPT !.step = "pushes", !.nodes = main_tag.nodes]

ArticleIdle ==
    /\ main_tag = MainTag(<<>>, <<>>)
    /\ article = NoArticle

\* lines 325-343; an AttributeError leaves __init__
ExtractPushes ==
    /\ article.step = "pushes"
    /\ LET r == AddPushes(main_tag.pushes, msgs) IN
          /\ msgs' = r.msgs
          /\ count' = IF r.ok THEN CountIt(r.msgs) ELSE count
          /\ article' = [article EXCEPT !.step = IF r.ok THEN "special" ELSE "AttributeError"]
    /\ UNCHANGED <<main_tag, titleVars, summaryVars, crawlVars>>

\* lines 346-357
ScanSpecialItems ==
    /\ article.step = "special"
    /\ LET r == SpecialItems(article.nodes) IN
          article' = [article EXCEPT !.step = "ip", !.dic = r.dic, !.nodes = r.nodes]
    /\ UNCHANGED <<main_tag, pushVars, titleVars, summaryVars, crawlVars>>

\* lines 360-368
SetIp ==
    /\ article.step = "ip"
    /\ article' = [article EXCEPT !.step = "split",
                                  !.ip = Some(ExtractIp(article.dic, article.nodes))]
    /\ UNCHANGED <<main_tag, pushVars, titleVars, summaryVars, crawlVars>>

\* lines 386-399
SplitBodySignature ==
    /\ article.step = "split"
    /\ LET r == SplitContent(Render(article.nodes)) IN
          article' = [article EXCEPT !.step = "clean", !.content = r.content,
                                     !.signature = r.signature]
    /\ UNCHANGED <<main_tag, pushVars, titleVars, summaryVars, crawlVars>>

\* lines 402-413
CleanWrapperLines ==
    /\ article.step = "clean"
    /\ article' = [article EXCEPT !.step = "done",
                                  !.content = CleanContent(article.content),
                                  !.signature = CleanSignature(article.signature)]
    /\ UNCHANGED <<main_tag, pushVars, titleVars, summaryVars, crawlVars>>

(***************************************************************************)
(* ptt_crawl and crawl_ptt_page                                            *)
(***************************************************************************)
DefaultPageNum == 5
DefaultStart   == 1

Digit == <<"1", "2", "3", "4", "5", "6", "7", "8", "9">>

\* the address of the k-th entry of a listing page
Url(k) == <<"/", "b", "/", "D", "/", "M", ".", Digit[k], ".", "h">>

\* the entries a listing page may hold at position k
LinkEntry(k) ==
    [title_div |-> TRUE, a_tag |-> TRUE, text |-> <<"[", "a", "]", "t">>,
     href |-> Some(Url(k)), nrec |-> TRUE, date |-> TRUE, author |-> TRUE,
     mark |-> TRUE]
RemovedEntry == [LinkEntry(1) EXCEPT !.a_tag = FALSE, !.href = None,
                                     !.text = <<"(", "x", ")">>]
CrawlTags(k) ==
    { LinkEntry(k),
      [LinkEntry(k) EXCEPT !.href = Some(<<>>)],    \* a link without address
      RemovedEntry,
      [RemovedEntry EXCEPT !.text = <<" ">>],       \* no link and no text
      [LinkEntry(k) EXCEPT !.date = FALSE] }        \* no date field

\* ArticlePage metadata that matter to the result: (title, author); both are ''
\* when the metadata block is missing
ArticleMetas ==
    { [title |-> <<>>, author |-> <<>>],
      [title |-> <<"t">>, author |-> <<"u">>] }

Row(aid, meta) == [aid |-> aid, title |-> meta.title, author |-> meta.author]

NonEmptyTitle(r) == r.title # <<>>

\* a plausible slip: the comparison of the title filter inverted
FinalDataInverted(rs) == SelectSeq(rs, LAMBDA r : ~NonEmptyTitle(r))

\* a plausible slip: the rows with an empty title are not filtered out
FinalDataUnfiltered(rs) == rs

\* ptt_crawl's final_data: the rows whose title is not ''
FinalData(rs) == SelectSeq(rs, NonEmptyTitle)

RECURSIVE concat(_)
concat(list) == IF list = <<>> THEN <<>> ELSE Head(list) \o concat(Tail(list))

SameKey(r1, r2) == r1.title = r2.title /\ r1.author = r2.author

RECURSIVE KeepFirst(_, _)
KeepFirst(rs, kept) ==
    IF rs = <<>> THEN kept
    ELSE KeepFirst(Tail(rs),
                   IF \E i \in DOMAIN kept : SameKey(kept[i], Head(rs))
                   THEN kept ELSE Append(kept, Head(rs)))

RECURSIVE KeepLast(_, _)
KeepLast(rs, kept) ==
    IF rs = <<>> THEN kept
    ELSE KeepLast(Tail(rs),
                  IF \E i \in DOMAIN Tail(rs) : SameKey(Tail(rs)[i], Head(rs))
                  THEN kept ELSE Append(kept, Head(rs)))

\* a plausible slip: keep='last'
drop_duplicates_last(rs) == KeepLast(rs, <<>>)

\* DataFrame.drop_duplicates(subset=[title, author], keep='first')
drop_duplicates(rs) == KeepFirst(rs, <<>>)

\* the post-loop result: nothing when no page gave data, else merge and dedup
FinalResult(list) == IF list = <<>> THEN <<>> ELSE drop_duplicates(concat(list))

\* a plausible slip: the loop bound inclusive
LoopContinuesInclusive(crawled, maxp) == crawled <= maxp

\* the while condition of the crawl loop
LoopContinues(crawled, maxp) == crawled < maxp

NoRet         == [kind |-> "none", data |-> <<>>]
Value(data)   == [kind |-> "value", data |-> data]
Raised(e)     == [kind |-> e, data |-> <<>>]

NoHist == [entries |-> 0, visited |-> 0, read_ok |-> <<>>, failed |-> 0]

Attempt(listing, data) == [listing |-> listing, data |-> data]

StartArgs == {[isdigit |-> FALSE, val |-> 0]} \cup
             {[isdigit |-> TRUE, val |-> v] : v \in 0..MaxStart}

CrawlIdleRest ==
    /\ start = 0 /\ max_pages = 0 /\ pages_crawled = 0 /\ page_index = 0
    /\ page_errors = 0 /\ total_success = 0
    /\ todo = 0 /\ rows = <<>> /\ success_count = 0 /\ error_count = 0
    /\ page_errors_log = <<>> /\ page_error_files = <<>>
    /\ ret = NoRet /\ exit = "none"
    /\ requested = <<>> /\ attempts = <<>> /\ hist = NoHist /\ in_hand = <<>>

\* crawl_ptt_page is called
CrawlInit ==
    /\ pc = "resolve"
    /\ arg_start \in StartArgs
    /\ crawl_all \in BOOLEAN
    /\ page_num \in IF crawl_all THEN {DefaultPageNum} ELSE 1..MaxPageNum
    /\ result_list = <<>>
    /\ CrawlIdleRest

CrawlIdle ==
    /\ pc = "idle"
    /\ arg_start = [isdigit |-> FALSE, val |-> 0]
    /\ crawl_all = FALSE
    /\ page_num = DefaultPageNum
    /\ result_list = <<>>
    /\ CrawlIdleRest

others == <<pushVars, titleVars, summaryVars, articleVars>>

\* the start index: the argument, or the latest page's previous index + 1, or 1
\* when the latest page cannot be read
ResolveStart ==
    /\ pc = "resolve"
    /\ \E s \in IF arg_start.isdigit THEN {arg_start.val}
                 ELSE {DefaultStart} \cup {k + 1 : k \in 1..(MaxStart - 1)} :
          /\ start' = s
          /\ max_pages' = IF crawl_all THEN s ELSE page_num
    /\ pages_crawled' = 0
    /\ pc' = "loop"
    /\ UNCHANGED <<argVars, page_index, page_errors, total_success, result_list,
                   pageVars, fileVars, ret, exit, histVars, others>>

\* an interrupt while the latest page is fetched is not caught in the function
InterruptResolve ==
    /\ pc = "resolve"
    /\ ~arg_start.isdigit
    /\ pc' = "done"
    /\ ret' = Raised("KeyboardInterrupt")
    /\ exit' = "raised"
    /\ UNCHANGED <<argVars, loopVars, pageVars, fileVars, histVars, others>>

\* the head of the while loop, up to the call of ptt_crawl
LoopHead ==
    /\ pc = "loop"
    /\ IF LoopContinues(pages_crawled, max_pages)
          /\ ~(crawl_all /\ start - pages_crawled <= 0)
       THEN /\ page_index' = start - pages_crawled
            /\ requested' = Append(requested, start - pages_crawled)
            /\ pc' = "ptt_crawl"
            /\ exit' = exit
       ELSE /\ pc' = "merge"
            /\ exit' = "loop_end"
            /\ UNCHANGED <<page_index, requested>>
    /\ UNCHANGED <<argVars, start, max_pages, pages_crawled, page_errors,
                   total_success, result_list, pageVars, fileVars, ret,
                   attempts, hist, in_hand, others>>

\* ptt_crawl cannot load the listing page: it tries to save a snapshot of the
\* page and returns an empty frame, which the caller counts as a page error
ListingFails ==
    /\ pc = "ptt_crawl"
    /\ \E saved \in BOOLEAN :
          page_error_files' = IF saved THEN Append(page_error_files, page_index)
                              ELSE page_error_files
    /\ page_errors' = page_errors + 1
    /\ pages_crawled' = pages_crawled + 1
    /\ attempts' = Append(attempts, Attempt("failed", <<>>))
    /\ pc' = "sleep"
    /\ UNCHANGED <<argVars, start, max_pages, page_index, total_success,
                   result_list, pageVars, page_errors_log, ret, exit,
                   requested, hist, in_hand, others>>

\* ptt_crawl loads the listing page
ListingLoads ==
    /\ pc = "ptt_crawl"
    /\ \E n \in 0..MaxEntries :
          /\ todo' = n
          /\ hist' = [NoHist EXCEPT !.entries = n]
    /\ rows' = <<>>
    /\ success_count' = 0
    /\ error_count' = 0
    /\ pc' = "articles"
    /\ UNCHANGED <<argVars, loopVars, fileVars, ret, exit, requested, attempts,
                   in_hand, others>>

\* the position in the page of the summary the iteration is at
Position == hist.entries - todo + 1

\* article_summaries: what from_bs_tag makes of the entries at each position
SummariesAt == [k \in 1..MaxEntries |-> {from_bs_tag(tg) : tg \in CrawlTags(k)}]

\* the summaries the iterator of latest_page may give next
NextSummaries == SummariesAt[Position]

\* the entry is removed: skipped
SkipRemoved ==
    /\ pc = "articles" /\ todo > 0
    /\ \E sm \in NextSummaries : sm.ok /\ sm.s.isremoved
    /\ todo' = todo - 1
    /\ hist' = [hist EXCEPT !.visited = @ + 1]
    /\ UNCHANGED <<pc, argVars, loopVars, rows, success_count, error_count,
                   fileVars, ret, exit, requested, attempts, in_hand, others>>

\* read() gives the article: its row is appended
ReadSucceeds ==
    /\ pc = "articles" /\ todo > 0
    /\ \E sm \in NextSummaries :
          /\ sm.ok /\ ~sm.s.isremoved
          /\ \E o \in ReadOutcomes(sm.s) : o.kind = "Page"
          /\ \E meta \in ArticleMetas :
                /\ rows' = Append(rows, Row(parse_std_url(sm.s.url).aid, meta))
                /\ hist' = [hist EXCEPT
                              !.visited = @ + 1,
                              !.read_ok = Append(@, Row(parse_std_url(sm.s.url).aid, meta))]
    /\ success_count' = success_count + 1
    /\ todo' = todo - 1
    /\ UNCHANGED <<pc, argVars, loopVars, error_count, fileVars, ret, exit,
                   requested, attempts, in_hand, others>>

\* read() raises: counted, and the iteration goes on
ReadFails ==
    /\ pc = "articles" /\ todo > 0
    /\ \E sm \in NextSummaries :
          /\ sm.ok /\ ~sm.s.isremoved
          /\ \E o \in ReadOutcomes(sm.s) : o.kind # "Page"
    /\ error_count' = error_count + 1
    /\ todo' = todo - 1
    /\ hist' = [hist EXCEPT !.visited = @ + 1, !.failed = @ + 1]
    /\ UNCHANGED <<pc, argVars, loopVars, rows, success_count, fileVars, ret,
                   exit, requested, attempts, in_hand, others>>

\* the iterator raises InValidBeautifulSoupTag, which leaves ptt_crawl: the
\* caller counts a page error and appends a line to page_errors.log; when that
\* write fails, the outer handler returns an empty frame
SummaryInvalid ==
    /\ pc = "articles" /\ todo > 0
    /\ \E sm \in NextSummaries : ~sm.ok
    /\ page_errors' = page_errors + 1
    /\ attempts' = Append(attempts, Attempt("invalid_tag", <<>>))
    /\ hist' = NoHist
    /\ \E logged \in BOOLEAN :
          IF logged
          THEN /\ page_errors_log' = Append(page_errors_log, page_index)
               /\ pages_crawled' = pages_crawled + 1
               /\ pc' = "loop"
               /\ UNCHANGED <<ret, exit>>
          ELSE /\ ret' = Value(<<>>)
               /\ exit' = "critical_error"
               /\ pc' = "done"
               /\ UNCHANGED <<page_errors_log, pages_crawled>>
    /\ UNCHANGED <<argVars, start, max_pages, page_index, total_success,
                   result_list, pageVars, page_error_files, requested,
                   in_hand, others>>

\* a plausible slip: the page data tested against None, which ptt_crawl never returns
empty_as_none(page_data) == FALSE

\* DataFrame.empty
empty(page_data) == page_data = <<>>

\* ptt_crawl returns final_data; the caller keeps it when it is not empty and
\* counts a page error when it is
PageReturns ==
    /\ pc = "articles" /\ todo = 0
    /\ LET page_data == FinalData(rows) IN
          /\ IF ~empty(page_data)
             THEN /\ result_list' = Append(result_list, page_data)
                  /\ total_success' = total_success + Len(page_data)
                  /\ page_errors' = page_errors
             ELSE /\ page_errors' = page_errors + 1
                  /\ UNCHANGED <<result_list, total_success>>
          /\ attempts' = Append(attempts, Attempt("ok", page_data))
    /\ pages_crawled' = pages_crawled + 1
    /\ pc' = "sleep"
    /\ UNCHANGED <<argVars, start, max_pages, page_index, pageVars, fileVars,
                   ret, exit, requested, hist, in_hand, others>>

\* the pause after a page
Sleep ==
    /\ pc = "sleep"
    /\ pc' = "loop"
    /\ hist' = NoHist
    /\ UNCHANGED <<argVars, loopVars, pageVars, fileVars, ret, exit, requested,
                   attempts, in_hand, others>>

\* KeyboardInterrupt inside the loop body (in ptt_crawl or in the pause): the
\* loop is left; what ptt_crawl held is gone with its frame
Interrupt ==
    /\ pc \in {"ptt_crawl", "articles", "sleep"}
    /\ in_hand' = IF pc = "articles" THEN rows ELSE <<>>
    /\ hist' = NoHist
    /\ exit' = "KeyboardInterrupt"
    /\ pc' = "merge"
    /\ UNCHANGED <<argVars, loopVars, pageVars, fileVars, ret, requested,
                   attempts, others>>

\* after the loop: merge, deduplicate, return
Merge ==
    /\ pc = "merge"
    /\ ret' = Value(FinalResult(result_list))
    /\ pc' = "done"
    /\ UNCHANGED <<argVars, loopVars, pageVars, fileVars, exit, histVars, others>>

(***************************************************************************)
(* Specifications                                                          *)
(***************************************************************************)
\* a crawl
Init == CrawlInit /\ PushesInit /\ TitleIdle /\ SummaryIdle /\ ArticleIdle

Next ==
    \/ ResolveStart
    \/ InterruptResolve
    \/ LoopHead
    \/ ListingFails
    \/ ListingLoads
    \/ SkipRemoved
    \/ ReadSucceeds
    \/ ReadFails
    \/ SummaryInvalid
    \/ PageReturns
    \/ Sleep
    \/ Interrupt
    \/ Merge

Spec == Init /\ [][Next]_vars

\* a comment set
InitPushes == PushesInit /\ TitleIdle /\ SummaryIdle /\ ArticleIdle /\ CrawlIdle
NextPushes == addmsg \/ countit
SpecPushes == InitPushes /\ [][NextPushes]_vars

\* parse_title on every short title
InitTitle == TitleInit /\ PushesInit /\ SummaryIdle /\ ArticleIdle /\ CrawlIdle
NextTitle == ParseTitle
SpecTitle == InitTitle /\ [][NextTitle]_vars

\* the post-loop merge on page result sets of every shape: rows rs cut into
\* pages after the positions in cuts
MergeMetas ==
    { [title |-> <<"t">>, author |-> <<"u">>],
      [title |-> <<"t">>, author |-> <<"v">>],
      [title |-> <<"s">>, author |-> <<"u">>] }
MergeRows == {Row(parse_std_url(Url(k)).aid, m) : k \in 1..2, m \in MergeMetas}

RECURSIVE Split(_, _, _)
Split(rs, cuts, from) ==
    IF from > Len(rs) THEN <<>>
    ELSE LET to == IF \E c \in cuts : c >= from
                   THEN CHOOSE c \in cuts : c >= from /\ \A d \in cuts : d >= from => c <= d
                   ELSE Len(rs)
         IN  <<SubSeq(rs, from, to)>> \o Split(rs, cuts, to + 1)

MergeInputs ==
    UNION { {Split(rs, cuts, 1) : cuts \in SUBSET (1..(Len(rs) - 1))} :
            rs \in SeqsUpTo(MergeRows, MaxRows) }

InitMerge ==
    /\ pc = "merge"
    /\ arg_start = [isdigit |-> FALSE, val |-> 0]
    /\ crawl_all = FALSE
    /\ page_num = DefaultPageNum
    /\ result_list \in MergeInputs
    /\ CrawlIdleRest
    /\ PushesInit /\ TitleIdle /\ SummaryIdle /\ ArticleIdle
NextMerge == Merge
SpecMerge == InitMerge /\ [][NextMerge]_vars

\* one article's markup parsed by ArticlePage.__init__
InitArticle == ArticleInit /\ PushesInit /\ TitleIdle /\ SummaryIdle /\ CrawlIdle
NextArticle ==
    \/ ExtractPushes
    \/ ScanSpecialItems
    \/ SetIp
    \/ SplitBodySignature
    \/ CleanWrapperLines
SpecArticle == InitArticle /\ [][NextArticle]_vars

\* one listing entry made a Summary and read
InitSummary == SummaryInit /\ PushesInit /\ TitleIdle /\ ArticleIdle /\ CrawlIdle
NextSummary == FromBsTag \/ read
SpecSummary == InitSummary /\ [][NextSummary]_vars

(***************************************************************************)
(* Properties                                                              *)
(***************************************************************************)
Last(sq) == sq[Len(sq)]

\* the durable page-scoped error records about page idx: its lines of
\* page_errors.log and its page_error snapshots
PageEntries(idx) ==
    Cardinality({i \in DOMAIN page_errors_log : page_errors_log[i] = idx})
  + Cardinality({i \in DOMAIN page_error_files : page_error_files[i] = idx})

OkAttempts == SelectSeq(attempts, LAMBDA a : a.listing = "ok" /\ a.data # <<>>)
OkData     == [i \in DOMAIN OkAttempts |-> OkAttempts[i].data]

\* C1: when the crawl loop has run to its end, the result is the data of the
\* pages whose listing loaded, and there is exactly one page-scoped error
\* entry for each page whose listing failed and none for the other pages.
C1_PageFailureRecorded ==
    (pc = "done" /\ exit = "loop_end") =>
        /\ ret = Value(FinalResult(OkData))
        /\ \A i \in DOMAIN attempts :
              PageEntries(requested[i]) = IF attempts[i].listing = "ok" THEN 0 ELSE 1

CountOf(ty) == Cardinality({i \in DOMAIN msgs : msgs[i].type = ty})

\* C2: every run of countit leaves like, boo and neutral equal to the number of
\* affirmative, negative and other events, all = like + boo + neutral and
\* score = like - boo, for every event sequence, the empty one included.
C2_CountsIdentity ==
    [][countit =>
         /\ count'.isdict
         /\ count'.like = CountOf(TypeLike)
         /\ count'.boo = CountOf(TypeBoo)
         /\ count'.neutral = Len(msgs) - CountOf(TypeLike) - CountOf(TypeBoo)
         /\ count'.all = count'.like + count'.boo + count'.neutral
         /\ count'.score = count'.like - count'.boo]_vars

\* counts of a sequence holding events of all three kinds
C2_Witness ==
    /\ count.isdict
    /\ count.like >= 1 /\ count.boo >= 1 /\ count.neutral >= 1
    /\ count.all = Len(msgs)

\* C3: an entry without inner link (its other fields in place) gives a Summary
\* that is removed and has no address, whatever its text; read() on it fails
\* with ArtitcleIsRemoved and no request is made.
C3_NoLinkIsRemoved ==
    (summary.built /\ tag.title_div /\ ~tag.a_tag /\ tag.date /\ tag.author
        /\ tag.mark) =>
        /\ summary.ok
        /\ summary.s.isremoved
        /\ summary.s.url = <<>>
        /\ read_result.done => (read_result.kind = "ArtitcleIsRemoved" /\ fetches = 0)

\* C4: the crawl loop always ends, whatever fails: a step is possible until
\* the function is done and every step brings the end nearer. The page indices
\* asked for go down by one from start, a failed page counting as one; with a
\* page count N the loop that runs to its end has made exactly N page attempts
\* and no run makes more; in crawl_all mode no index <= 0 is asked for and the
\* loop ends when the next index is <= 0.
C4_Bounded ==
    /\ \A i \in DOMAIN requested : requested[i] = start - i + 1
    /\ Len(attempts) <= Len(requested)
    /\ ~crawl_all /\ pc # "resolve" => Len(requested) <= page_num
    /\ crawl_all => \A i \in DOMAIN requested : requested[i] >= 1
    /\ exit = "loop_end" =>
          /\ Len(attempts) = Len(requested)
          /\ ~crawl_all => Len(requested) = page_num
          /\ crawl_all => start - Len(requested) <= 0

\* steps one page attempt takes at most, and the steps the crawl has left at
\* most: the pages left times the steps of a page, plus those of this page
PageSteps == MaxEntries + 5
StepsLeft ==
    LET left == (max_pages - pages_crawled) * PageSteps IN
    CASE pc = "done"      -> 0
      [] pc = "merge"     -> 1
      [] pc = "articles"  -> 2 + left + todo + 1
      [] pc = "ptt_crawl" -> 2 + left + PageSteps - 2
      [] pc = "loop"      -> 2 + left + PageSteps - 1
      [] pc = "sleep"     -> 2 + left + PageSteps
      [] OTHER            -> 2 + (MaxStart + MaxPageNum + 1) * PageSteps

C4_LoopTerminates ==
    /\ [](C4_Bounded /\ StepsLeft >= 0 /\ (pc # "done" => ENABLED Next))
    /\ [][StepsLeft' < StepsLeft]_vars

\* a crawl of two pages or more, one of which failed, run to its end
C4_Witness ==
    /\ pc = "done" /\ exit = "loop_end" /\ ~crawl_all
    /\ page_num >= 2 /\ Len(requested) = page_num
    /\ \E i \in DOMAIN attempts : attempts[i].listing # "ok"

\* C5: crawl_ptt_page, when no interrupt came, returns a value and never
\* raises, and the value holds everything accumulated: the page result sets
\* collected, merged and deduplicated.
C5_ReturnsAccumulated ==
    (pc = "done" /\ exit \in {"loop_end", "critical_error"}) =>
        ret = Value(FinalResult(result_list))

HasKey(rs, r) == \E i \in DOMAIN rs : SameKey(rs[i], r)

\* C7: after an interrupt in the loop crawl_ptt_page returns a value in which
\* every article accumulated before the interrupt is found: those of the
\* pages collected and those the page in progress had read (with a title).
C7_InterruptKeepsRows ==
    (pc = "done" /\ exit = "KeyboardInterrupt") =>
        /\ ret.kind = "value"
        /\ \A i \in DOMAIN concat(result_list) : HasKey(ret.data, concat(result_list)[i])
        /\ \A i \in DOMAIN in_hand :
              NonEmptyTitle(in_hand[i]) => HasKey(ret.data, in_hand[i])

\* the rows of the page result sets, by page and place, in merge order
Places == UNION {{<<p, k>> : k \in DOMAIN result_list[p]} : p \in DOMAIN result_list}
Before(a, b) == a[1] < b[1] \/ (a[1] = b[1] /\ a[2] < b[2])
RowAt(a) == result_list[a[1]][a[2]]
Firsts == {a \in Places : \A b \in Places : Before(b, a) => ~SameKey(RowAt(b), RowAt(a))}

\* C8: the merged result holds, in merge order, exactly the rows that are the
\* first of their (title, author) pair: one row for every pair, the first one,
\* and so every row whose pair occurs once.
C8_MergeKeepsFirst ==
    (pc = "done" /\ ret.kind = "value") =>
        /\ Len(ret.data) = Cardinality(Firsts)
        /\ \A a \in Firsts :
              ret.data[Cardinality({b \in Firsts : Before(b, a)}) + 1] = RowAt(a)

\* a merge of two pages or more that dropped a duplicate and kept two rows
C8_Witness ==
    /\ pc = "done" /\ Len(result_list) >= 2
    /\ Len(ret.data) >= 2
    /\ Len(ret.data) < Len(concat(result_list))

\* C9: a Summary that was built has an address or is removed, and not both; a
\* removed one has no address and the removal title.
C9_AddressXorRemoved ==
    (summary.built /\ summary.ok) =>
        /\ (summary.s.url # <<>>) # summary.s.isremoved
        /\ summary.s.isremoved =>
              (summary.s.url = <<>> /\ summary.s.title = RemovedTitle)

\* the first "[" of t has a "]" after it
HasBracketed(t) ==
    IndexOf(t, "[") # 0 /\ IndexOf(SubSeq(t, IndexOf(t, "[") + 1, Len(t)), "]") # 0

\* the text between the first "[" and the first "]" after it
Between(t) ==
    LET after == SubSeq(t, IndexOf(t, "[") + 1, Len(t))
    IN  SubSeq(after, 1, IndexOf(after, "]") - 1)

\* C10: the category of a title with a bracketed segment is the text between
\* the first "[" and the "]" that follows it; a title without brackets has no
\* category.
C10_CategoryIsFirstBracket ==
    parsed.done =>
        /\ HasBracketed(title) =>
              /\ parsed.category.text = Between(title)
              /\ Between(title) # <<>> => parsed.category.present
        /\ (IndexOf(title, "[") = 0 /\ IndexOf(title, "]") = 0) =>
              ~parsed.category.present

\* a text without the container's own markup and without outer whitespace
Core(s) == Strip(SelectSeq(s, LAMBDA c : c \notin {OpenDiv, CloseDiv}))

\* the text left in the container when it is rendered
Whole == Inner(article.nodes)

\* the opening and the closing markup of the container stand on lines of their
\* own, so that the cleaned content is the text between them
BareWrapperLines == Whole # <<>> /\ Head(Whole) = "\n" /\ Whole[Len(Whole)] = "\n"

\* C11: body and signature are the two parts of the cleaned content around its
\* first signature delimiter: body is what precedes it and signature is all
\* that follows it (also when the delimiter occurs again); without a delimiter
\* body is the whole content and signature is empty.  Outer whitespace is not
\* counted as content.
C11_BodySignaturePartition ==
    (article.step = "done" /\ BareWrapperLines) =>
        LET i == FindSub(Whole, Delimiter) IN
        IF i = 0
        THEN /\ Core(article.content) = Strip(Whole)
             /\ article.signature = <<>>
        ELSE /\ Core(article.content) = Strip(SubSeq(Whole, 1, i - 1))
             /\ Core(article.signature) = Strip(SubSeq(Whole, i + 2, Len(Whole)))

\* the counts are those of one pass over the first k events
CountsOfFirst(k) ==
    LET n(ty) == Cardinality({i \in 1..k : msgs[i].type = ty}) IN
    /\ count.isdict
    /\ count.like = n(TypeLike)
    /\ count.boo = n(TypeBoo)
    /\ count.neutral = k - n(TypeLike) - n(TypeBoo)
    /\ count.all = k
    /\ count.score = n(TypeLike) - n(TypeBoo)

\* C12 as stated: after any sequence of addmsg and countit the counts are those
\* of one pass over the current events (the count of a new comment set, the
\* integer 0, taken as consistent with no events).
C12_CountsAlwaysCurrent ==
    (msgs = <<>> /\ count = IntZero) \/ CountsOfFirst(Len(msgs))

\* C12 as amended: every countit leaves the counts of one pass over the current
\* events; countit on an event sequence already counted changes nothing;
\* addmsg leaves the counts alone, so at any time the counts are those of the
\* events present at the last countit, a prefix of the current events (no
\* counts without backing events), or the integer 0 before the first countit.
C12_CountsOfLastCountit ==
    /\ [](count = IntZero \/ \E k \in 0..Len(msgs) : CountsOfFirst(k))
    /\ [][countit => CountsOfFirst(Len(msgs))']_vars
    /\ [][(countit /\ CountsOfFirst(Len(msgs))) => count' = count]_vars
    /\ [][addmsg => count' = count]_vars

\* events were added after a countit, and countit ran again on an event
\* sequence it had already counted
C12_Witness ==
    /\ count.isdict
    /\ count.all >= 2
    /\ count.all < Len(msgs)
    /\ count.like >= 1 /\ count.boo >= 1

\* what each strategy yields on the parsed article: the last word of the first
\* declared origin line, the address in the first labelled "from" line, the
\* first address in the full text
DeclaredOrigin ==
    LET lines == SelectSeq(main_tag.nodes,
                           LAMBDA n : IsMarked(n) /\ KeyOf(n.text) = <<OriginLabel>>)
    IN  IF lines = <<>> \/ Words(ValueOf(lines[1].text)) = <<>> THEN None
        ELSE Some(Words(ValueOf(lines[1].text))[Len(Words(ValueOf(lines[1].text)))])

LabelledFrom == SearchLabelled(article.nodes)

FullText == Search(get_text(article.nodes))

FallbackChain ==
    IF DeclaredOrigin.present THEN DeclaredOrigin.text
    ELSE IF LabelledFrom.present THEN LabelledFrom.text
    ELSE IF FullText.present THEN FullText.text
    ELSE Unknown

\* C13: the source address is what the first strategy that yields a value gives,
\* in the order declared origin line, labelled "from" line, pattern in the full
\* text, and the sentinel when none yields; an origin line without value does
\* not stop the later strategies.
C13_IpFallbackOrder ==
    article.ip.present => article.ip.text = FallbackChain

\* the comment blocks that carry a type tag and all their fields, in document order
SoundBlocks == SelectSeq(main_tag.pushes, LAMBDA b : HasPushTag(b) /\ WellFormed(b))

\* C14: once the comment blocks are extracted, the comment sequence holds one
\* event per comment block with a type tag, in document order, a malformed
\* block (no type tag, or a field missing) being skipped; the parse never
\* fails on a comment block.
C14_MalformedPushSkipped ==
    article.step \notin {"idle", "pushes"} =>
        /\ article.step # "AttributeError"
        /\ msgs = [i \in DOMAIN SoundBlocks |-> MsgOf(SoundBlocks[i])]

EmptyAttempts == SelectSeq(attempts, LAMBDA a : a.data = <<>>)

\* C15: at every head of the crawl loop each page attempted so far is either a
\* page error or a collected result set: pages_crawled = page_errors + the
\* number of result sets; the page errors are the attempts that gave no data,
\* whatever the cause, and the result sets are the data of the other attempts,
\* in order, none of them empty.
C15_PagesAccounted ==
    pc = "loop" =>
        /\ pages_crawled = page_errors + Len(result_list)
        /\ pages_crawled = Len(attempts)
        /\ page_errors = Len(EmptyAttempts)
        /\ result_list = OkData
        /\ total_success = Len(concat(result_list))

\* at a loop head after a page whose listing failed and a page that loaded and
\* gave no row
C15_Witness ==
    /\ pc = "loop"
    /\ page_errors = 2
    /\ \E i \in DOMAIN attempts : attempts[i] = Attempt("failed", <<>>)
    /\ \E i \in DOMAIN attempts : attempts[i] = Attempt("ok", <<>>)

Titled(rs) == \A i \in DOMAIN rs : rs[i].title # <<>>

\* C16: every row of every page result set ptt_crawl returned, and of the final
\* result, has a title that is not empty; an article that was read is counted
\* as a success whatever its title, and the page result set is the rows read
\* less those with an empty title.
C16_RowsHaveTitle ==
    /\ \A i \in DOMAIN attempts : Titled(attempts[i].data)
    /\ \A p \in DOMAIN result_list : Titled(result_list[p])
    /\ ret.kind = "value" => Titled(ret.data)
    /\ pc = "articles" => success_count = Len(rows)
    /\ (pc = "sleep" /\ Last(attempts).listing = "ok") =>
          /\ success_count = Len(hist.read_ok)
          /\ Last(attempts).data = SelectSeq(hist.read_ok, LAMBDA r : r.title # <<>>)

\* a returned page of which one article was kept and another, read with an
\* empty title, was counted and dropped
C16_Witness ==
    /\ pc = "sleep"
    /\ Last(attempts).listing = "ok"
    /\ Last(attempts).data # <<>>
    /\ success_count > Len(Last(attempts).data)
====
